---- MODULE Spec2Model ----
(***************************************************************************)
(* Model of the su pipeline (src/su/mod.rs) and of the terminal            *)
(* raw-mode machinery (sudo/lib/system/term/ops.rs).                       *)
(*                                                                         *)
(* Spec     : one invocation of su: main -> run -> authenticate -> ...     *)
(* TermSpec : sequences of term_raw / term_restore calls on one terminal   *)
(* CopySpec : sequences of term_copy calls from one terminal to another    *)
(***************************************************************************)
EXTENDS Integers, Sequences, FiniteSets, TLC

VARIABLES
    pc,            \* position of the main control flow in main/run/authenticate
    max_tries,     \* authenticate(): local `max_tries`
    current_try,   \* authenticate(): local `current_try`
    events,        \* calls made to the collaborators so far, in order
    reason,        \* run(): `reason` returned by run_command
    pid,           \* run(): `pid` (context.process.pid)
    error,         \* the Err value run() returned to main
    proc,          \* how the process ended: running / exited / signaled / panicked
    exit_status,   \* status given to process::exit (or of the normal return of main)
    term_signal,   \* the signal that terminated this process (0: none)
    CHANGED,       \* ops.rs static CHANGED
    OTERM,         \* ops.rs static OTERM
    GOT_SIGTTOU,   \* ops.rs static GOT_SIGTTOU
    tty,           \* the attributes of the terminal behind `fd`
    sigttou_action,\* the process's disposition for SIGTTOU
    original_action,\* tcsetattr_nobg(): local `original_action`
    tpc,           \* position of the terminal code: idle / inside the tcsetattr loop
    call,          \* the term_raw / term_restore call in progress
    saves,         \* number of times CHANGED went from false to true
    last,          \* last completed terminal operation and its result
    delivered,     \* SIGTTOU was delivered during the current (or last) tcsetattr_nobg
    captures,      \* number of tcgetattr(fd, OTERM) captures made by term_raw
    tty0,          \* the attributes of the terminal before the first term_raw
    src_tty,       \* term_copy(): the attributes of the terminal behind `src`
    src_ws,        \* term_copy(): the window size of the terminal behind `src`
    dst_ws         \* term_copy(): the window size of the terminal behind `dst`

suVars   == <<pc, max_tries, current_try, events, reason, pid, error, proc, exit_status,
              term_signal>>
termVars == <<CHANGED, OTERM, GOT_SIGTTOU, tty, sigttou_action, original_action, tpc, call,
              saves, last, delivered, captures, tty0, src_tty, src_ws, dst_ws>>
vars     == <<pc, max_tries, current_try, events, reason, pid, error, proc, exit_status,
              term_signal, CHANGED, OTERM, GOT_SIGTTOU, tty, sigttou_action, original_action,
              tpc, call, saves, last, delivered, captures, tty0, src_tty, src_ws, dst_ws>>

----------------------------------------------------------------------------
(* su/mod.rs                                                               *)

\* `let mut max_tries = 3;`
MAX_TRIES == 3

\* PamErrorType values the module can report (MaxTries and AuthError are the
\* two the loop matches on, the others stand for every other type)
PamErrorTypes == {"MaxTries", "AuthError", "PermDenied", "AuthInfoUnavailable"}

NoPam == [variant |-> "none", ty |-> "none"]

\* PamError: Pam(PamErrorType, _) or a non-Pam variant
PamOk == [variant |-> "Ok", ty |-> "none"]

PamErrors == {[variant |-> "Pam", ty |-> t] : t \in PamErrorTypes}
             \cup {[variant |-> "IoError", ty |-> "none"]}

NoError == [tag |-> "none", tries |-> 0, pam |-> NoPam]

\* Error::MaxAuthAttempts(current_try)
MaxAuthAttempts(k) == [tag |-> "MaxAuthAttempts", tries |-> k, pam |-> NoPam]

\* `e.into()` / `?` on a PamError: the error is carried inside Error
IntoError(e) == [tag |-> "Pam", tries |-> 0, pam |-> e]

PlainError(t) == [tag |-> t, tries |-> 0, pam |-> NoPam]

\* errors of SuContext::from_env
ContextErrors == {PlainError("CommandNotFound"), PlainError("InvalidCommand"),
                  PlainError("UserNotFound")}

\* errors of exec::run_command and system::kill
IoErrors == {PlainError("IoError")}

\* exit codes and signals the target command can end with
ExitCodes == {0, 1, 42, 126, 127}
Signals   == {2, 9, 15}

NoReason == [kind |-> "none", v |-> 0]
ExitReasons == {[kind |-> "Code", v |-> c] : c \in ExitCodes}
               \cup {[kind |-> "Signal", v |-> s] : s \in Signals}

\* one call to a collaborator: its name, whether it succeeded, its argument
\* (attempt number, exit code or signal) and, for pam.authenticate, its result
Ev(op, ok, v) == [op |-> op, ok |-> ok, v |-> v, res |-> NoPam]
EvAuth(r, cur) == [op |-> "authenticate", ok |-> (r = PamOk), v |-> cur, res |-> r]

\* variant of ExitStatusOf with the two distinguished codes exchanged
ExitStatusBad(e) ==
    IF e.tag = "CommandNotFound" THEN 126
    ELSE IF e.tag = "InvalidCommand" THEN 127
    ELSE 1

\* main(): the match on the result of run()
ExitStatusOf(e) ==
    IF e.tag = "CommandNotFound" THEN 127
    ELSE IF e.tag = "InvalidCommand" THEN 126
    ELSE 1

\* run() returns Err(e) to main, which prints it and exits
Fail(e) ==
    /\ error' = e
    /\ proc' = "exited"
    /\ exit_status' = ExitStatusOf(e)
    /\ pc' = "done"
    /\ UNCHANGED term_signal

SuInit ==
    /\ pc = "main"
    /\ max_tries = 0
    /\ current_try = 0
    /\ events = <<>>
    /\ reason = NoReason
    /\ pid = "unset"
    /\ error = NoError
    /\ proc = "running"
    /\ exit_status = -1
    /\ term_signal = 0

\* main(): SuOptions::from_env().unwrap() fails
MainParseFail ==
    /\ pc = "main"
    /\ pc' = "done"
    /\ proc' = "panicked"
    /\ exit_status' = 101
    /\ UNCHANGED <<max_tries, current_try, events, reason, pid, error, term_signal>>
    /\ UNCHANGED termVars

\* main(): SuAction::Help / SuAction::Version
MainHelpVersion ==
    /\ pc = "main"
    /\ \E a \in {"Help", "Version"} :
          events' = Append(events, Ev(a, TRUE, 0))
    /\ pc' = "done"
    /\ proc' = "exited"
    /\ exit_status' = 0
    /\ UNCHANGED <<max_tries, current_try, reason, pid, error, term_signal>>
    /\ UNCHANGED termVars

\* main(): SuAction::Run => run(su_options)
MainRun ==
    /\ pc = "main"
    /\ pc' = "from_env"
    /\ UNCHANGED <<max_tries, current_try, events, reason, pid, error, proc, exit_status,
                   term_signal>>
    /\ UNCHANGED termVars

\* run(): SuContext::from_env(options)?
FromEnv ==
    /\ pc = "from_env"
    /\ \/ /\ events' = Append(events, Ev("from_env", TRUE, 0))
          /\ pc' = "pam_build"
          /\ UNCHANGED <<error, proc, exit_status, term_signal>>
       \/ \E e \in ContextErrors :
          /\ events' = Append(events, Ev("from_env", FALSE, 0))
          /\ Fail(e)
    /\ UNCHANGED <<max_tries, current_try, reason, pid>>
    /\ UNCHANGED termVars

\* authenticate(): PamContext::builder_cli(..).build()?
PamBuild ==
    /\ pc = "pam_build"
    /\ \/ /\ events' = Append(events, Ev("pam_build", TRUE, 0))
          /\ pc' = "set_user"
          /\ UNCHANGED <<error, proc, exit_status, term_signal>>
       \/ \E e \in PamErrors :
          /\ events' = Append(events, Ev("pam_build", FALSE, 0))
          /\ Fail(IntoError(e))
    /\ UNCHANGED <<max_tries, current_try, reason, pid>>
    /\ UNCHANGED termVars

\* authenticate(): pam.set_user(user)?; let mut max_tries = 3; let mut current_try = 0;
PamSetUser ==
    /\ pc = "set_user"
    /\ \/ /\ events' = Append(events, Ev("set_user", TRUE, 0))
          /\ pc' = "auth_loop"
          /\ max_tries' = MAX_TRIES
          /\ current_try' = 0
          /\ UNCHANGED <<error, proc, exit_status, term_signal>>
       \/ \E e \in PamErrors :
          /\ events' = Append(events, Ev("set_user", FALSE, 0))
          /\ Fail(IntoError(e))
          /\ UNCHANGED <<max_tries, current_try>>
    /\ UNCHANGED <<reason, pid>>
    /\ UNCHANGED termVars

\* variant of Classify that retries every error but MaxTries
ClassifyRetryOther(r, left) ==
    IF r = PamOk THEN "success"
    ELSE IF r.variant = "Pam" /\ r.ty = "MaxTries" THEN "exhausted"
    ELSE IF r.variant = "Pam" /\ r.ty = "AuthError"
         THEN (IF left = 0 THEN "exhausted" ELSE "retry")
    ELSE "retry"

\* variant of Classify that reports PermDenied as exhaustion
ClassifyPermDenied(r, left) ==
    IF r = PamOk THEN "success"
    ELSE IF r.variant = "Pam" /\ r.ty \in {"MaxTries", "PermDenied"} THEN "exhausted"
    ELSE IF r.variant = "Pam" /\ r.ty = "AuthError"
         THEN (IF left = 0 THEN "exhausted" ELSE "retry")
    ELSE "fatal"

\* the match on the result of pam.authenticate(): which arm is taken, given
\* the result `r` (PamOk or a PamError) and the budget left after this attempt
Classify(r, left) ==
    IF r = PamOk THEN "success"
    ELSE IF r.variant = "Pam" /\ r.ty = "MaxTries" THEN "exhausted"
    ELSE IF r.variant = "Pam" /\ r.ty = "AuthError"
         THEN (IF left = 0 THEN "exhausted" ELSE "retry")
    ELSE "fatal"

\* variant of BudgetAfter that forgets the decrement
BudgetNoDecrement(r, m) == m

\* `max_tries -= 1;` in the AuthError arm, nothing in the other arms
BudgetAfter(r, m) ==
    IF r.variant = "Pam" /\ r.ty = "AuthError" THEN m - 1 ELSE m

\* variant of ExhaustedError that counts the attempts from the budget
ExhaustedErrorFromBudget(cur, left) == MaxAuthAttempts(MAX_TRIES - left)

\* `Err(Error::MaxAuthAttempts(current_try))`
ExhaustedError(cur, left) == MaxAuthAttempts(cur)

\* authenticate(): one iteration of the loop around pam.authenticate()
PamAuthenticate ==
    /\ pc = "auth_loop"
    /\ \E r \in {PamOk} \cup PamErrors :
        LET cur  == current_try + 1
            left == BudgetAfter(r, max_tries)
            arm  == Classify(r, left)
            auth == EvAuth(r, cur)
        IN  /\ current_try' = cur
            /\ max_tries' = left
            /\ \/ /\ arm = "success"
                  /\ events' = Append(events, auth)
                  /\ pc' = "validate"
                  /\ UNCHANGED <<error, proc, exit_status, term_signal>>
               \/ /\ arm = "exhausted"
                  /\ events' = Append(events, auth)
                  /\ Fail(ExhaustedError(cur, left))
               \/ /\ arm = "retry"
                  /\ events' = events \o <<auth, Ev("warn", TRUE, cur)>>
                  /\ pc' = "auth_loop"
                  /\ UNCHANGED <<error, proc, exit_status, term_signal>>
               \/ /\ arm = "fatal"
                  /\ events' = Append(events, auth)
                  /\ Fail(IntoError(r))
    /\ UNCHANGED <<reason, pid>>
    /\ UNCHANGED termVars

\* authenticate(): pam.validate_account_or_change_auth_token()?
Validate ==
    /\ pc = "validate"
    /\ \/ /\ events' = Append(events, Ev("validate", TRUE, 0))
          /\ pc' = "open_session"
          /\ UNCHANGED <<error, proc, exit_status, term_signal>>
       \/ \E e \in PamErrors :
          /\ events' = Append(events, Ev("validate", FALSE, 0))
          /\ Fail(IntoError(e))
    /\ UNCHANGED <<max_tries, current_try, reason, pid>>
    /\ UNCHANGED termVars

\* variant of OpenSession that discards the result of pam.open_session()
OpenSessionUnchecked ==
    /\ pc = "open_session"
    /\ \E ok \in BOOLEAN : events' = Append(events, Ev("open_session", ok, 0))
    /\ pc' = "run_command"
    /\ UNCHANGED <<max_tries, current_try, reason, pid, error, proc, exit_status,
                   term_signal>>
    /\ UNCHANGED termVars

\* authenticate(): pam.open_session()?; Ok(pam)
OpenSession ==
    /\ pc = "open_session"
    /\ \/ /\ events' = Append(events, Ev("open_session", TRUE, 0))
          /\ pc' = "run_command"
          /\ UNCHANGED <<error, proc, exit_status, term_signal>>
       \/ \E e \in PamErrors :
          /\ events' = Append(events, Ev("open_session", FALSE, 0))
          /\ Fail(IntoError(e))
    /\ UNCHANGED <<max_tries, current_try, reason, pid>>
    /\ UNCHANGED termVars

\* run(): let pid = context.process.pid; run_command(context, environment)?
RunCommand ==
    /\ pc = "run_command"
    /\ pid' = "self"
    /\ \/ \E r \in ExitReasons :
          /\ events' = Append(events, Ev("run_command", TRUE, 0))
          /\ reason' = r
          /\ pc' = "close_session"
          /\ UNCHANGED <<error, proc, exit_status, term_signal>>
       \/ \E e \in IoErrors :
          /\ events' = Append(events, Ev("run_command", FALSE, 0))
          /\ Fail(e)
          /\ UNCHANGED reason
    /\ UNCHANGED <<max_tries, current_try>>
    /\ UNCHANGED termVars

\* run(): let _ = pam.close_session();
CloseSession ==
    /\ pc = "close_session"
    /\ \E ok \in BOOLEAN : events' = Append(events, Ev("close_session", ok, 0))
    /\ pc' = "finalize"
    /\ UNCHANGED <<max_tries, current_try, reason, pid, error, proc, exit_status,
                   term_signal>>
    /\ UNCHANGED termVars

\* variant of Finalize that does not call the callback
FinalizeSkipped ==
    /\ pc = "finalize"
    /\ pc' = "map_exit"
    /\ UNCHANGED <<max_tries, current_try, events, reason, pid, error, proc, exit_status,
                   term_signal>>
    /\ UNCHANGED termVars

\* run(): emulate_default_handler();
Finalize ==
    /\ pc = "finalize"
    /\ events' = Append(events, Ev("finalize", TRUE, 0))
    /\ pc' = "map_exit"
    /\ UNCHANGED <<max_tries, current_try, reason, pid, error, proc, exit_status,
                   term_signal>>
    /\ UNCHANGED termVars

\* run(): match reason { Code(code) => process::exit(code),
\*                       Signal(signal) => kill(pid, signal)? }  Ok(())
\* kill() either does not return (the signal terminates this process), or
\* returns Ok (the signal did not terminate it) and run() returns Ok(()) so
\* that main returns normally, or returns Err, which run() hands to main.
MapExit ==
    /\ pc = "map_exit"
    /\ \/ /\ reason.kind = "Code"
          /\ events' = Append(events, Ev("exit", TRUE, reason.v))
          /\ proc' = "exited"
          /\ exit_status' = reason.v
          /\ pc' = "done"
          /\ UNCHANGED <<error, term_signal>>
       \/ /\ reason.kind = "Signal"
          /\ \/ /\ events' = Append(events, Ev("kill", TRUE, reason.v))
                /\ pid = "self"
                /\ proc' = "signaled"
                /\ term_signal' = reason.v
                /\ pc' = "done"
                /\ UNCHANGED <<error, exit_status>>
             \/ /\ events' = Append(events, Ev("kill", TRUE, reason.v))
                /\ proc' = "exited"
                /\ exit_status' = 0
                /\ pc' = "done"
                /\ UNCHANGED <<error, term_signal>>
             \/ \E e \in IoErrors :
                /\ events' = Append(events, Ev("kill", FALSE, reason.v))
                /\ Fail(e)
    /\ UNCHANGED <<max_tries, current_try, reason, pid>>
    /\ UNCHANGED termVars

SuNext ==
    \/ MainParseFail
    \/ MainHelpVersion
    \/ MainRun
    \/ FromEnv
    \/ PamBuild
    \/ PamSetUser
    \/ PamAuthenticate
    \/ Validate
    \/ OpenSession
    \/ RunCommand
    \/ CloseSession
    \/ Finalize
    \/ MapExit

----------------------------------------------------------------------------
(* sudo/lib/system/term/ops.rs                                             *)
(* A flag word (tcflag_t) is the set of the bit values that are set in it. *)

\* number of times one tcsetattr call is interrupted by unrelated signals
MaxInterrupts == 2

\* libc bits used by term_raw and cfmakeraw (values of Linux)
ISIG    == {1}
ICANON  == {2}
ECHO    == {8}
ECHOE   == {16}
ECHONL  == {64}
IEXTEN  == {32768}
OPOST   == {1}
ONLCR   == {4}
IGNBRK  == {1}
BRKINT  == {2}
PARMRK  == {8}
ISTRIP  == {32}
INLCR   == {64}
IGNCR   == {128}
ICRNL   == {256}
IXON    == {1024}
CSIZE   == {16, 32}
CS8     == {16, 32}
CREAD   == {128}
PARENB  == {256}
B19200  == {2, 4, 8}
B38400  == {1, 2, 4, 8}

Termios(i, o, c, l, cc) == [c_iflag |-> i, c_oflag |-> o, c_cflag |-> c, c_lflag |-> l,
                            c_cc |-> cc]

\* MaybeUninit::uninit()
Uninit == Termios({}, {}, {}, {}, [VMIN |-> 0, VTIME |-> 0])

\* the attributes a terminal can have when the process starts
InitialTtys ==
    { Termios(ICRNL \cup IXON, OPOST \cup ONLCR, speed \cup CS8 \cup CREAD \cup par,
              ISIG \cup ICANON \cup IEXTEN \cup echo, cc) :
        speed \in {B19200, B38400}, par \in {{}, PARENB},
        echo \in {{}, ECHO \cup ECHOE},
        cc \in {[VMIN |-> 1, VTIME |-> 0], [VMIN |-> 4, VTIME |-> 2]} }

\* libc cfmakeraw(&mut term)
cfmakeraw(t) ==
    Termios(t.c_iflag \ (IGNBRK \cup BRKINT \cup PARMRK \cup ISTRIP \cup INLCR \cup IGNCR
                         \cup ICRNL \cup IXON),
            t.c_oflag \ OPOST,
            (t.c_cflag \ (CSIZE \cup PARENB)) \cup CS8,
            t.c_lflag \ (ECHO \cup ECHONL \cup ICANON \cup ISIG \cup IEXTEN),
            [VMIN |-> 1, VTIME |-> 0])

\* term_raw(): the attributes handed to tcsetattr_nobg
\*   let mut term = OTERM; cfmakeraw(&mut term);
\*   if with_signals { term.c_cflag |= ISIG; }
RawTerm(oterm, with_signals) ==
    LET term == cfmakeraw(oterm)
    IN  IF with_signals THEN [term EXCEPT !.c_cflag = @ \cup ISIG] ELSE term

\* number of tcgetattr captures into OTERM that are followed
MaxCaptures == 2

\* the other libc bits of the four masks of term_copy (values of Linux)
IGNPAR  == {4}
INPCK   == {16}
IXANY   == {2048}
IXOFF   == {4096}
IMAXBEL == {8192}
IUTF8   == {16384}
OLCUC   == {2}
OCRNL   == {8}
ONOCR   == {16}
ONLRET  == {32}
CS7     == {32}
PARODD  == {512}
ECHOK   == {32}
NOFLSH  == {128}
TOSTOP  == {256}
ECHOCTL == {512}
ECHOKE  == {2048}
PENDIN  == {16384}
\* bits outside the four masks
OFILL   == {64}
HUPCL   == {1024}
ECHOPRT == {1024}
\* speed_t values
B0      == {}
B9600   == {1, 4, 8}

INPUT_FLAGS == IGNPAR \cup PARMRK \cup INPCK \cup ISTRIP \cup INLCR \cup IGNCR \cup ICRNL
               \cup IXON \cup IXANY \cup IXOFF \cup IMAXBEL \cup IUTF8
OUTPUT_FLAGS == OPOST \cup OLCUC \cup ONLCR \cup OCRNL \cup ONOCR \cup ONLRET
CONTROL_FLAGS == CS7 \cup CS8 \cup PARENB \cup PARODD
LOCAL_FLAGS == ISIG \cup ICANON \cup ECHO \cup ECHOE \cup ECHOK \cup ECHONL \cup NOFLSH
               \cup TOSTOP \cup IEXTEN \cup ECHOCTL \cup ECHOKE \cup PENDIN

\* a termios as term_copy sees it: the line speeds are the two values that
\* cfgetispeed / cfgetospeed read and cfsetispeed / cfsetospeed write
TermiosSpeed(i, o, c, l, cc, ispeed, ospeed) ==
    [c_iflag |-> i, c_oflag |-> o, c_cflag |-> c, c_lflag |-> l, c_cc |-> cc,
     c_ispeed |-> ispeed, c_ospeed |-> ospeed]

cfgetospeed(t) == t.c_ospeed
cfgetispeed(t) == t.c_ispeed
cfsetospeed(t, speed) == [t EXCEPT !.c_ospeed = speed]
cfsetispeed(t, speed) == [t EXCEPT !.c_ispeed = speed]

\* bits of the four groups inside the masks, and outside them
InMask == << [i |-> ICRNL \cup IXON, o |-> OPOST \cup ONLCR, c |-> CS8 \cup PARENB,
              l |-> ISIG \cup ICANON \cup ECHO],
             [i |-> IUTF8, o |-> {}, c |-> CS7, l |-> ECHOKE] >>
OutMask == << [i |-> IGNBRK, o |-> {}, c |-> CREAD, l |-> {}],
              [i |-> BRKINT, o |-> OFILL, c |-> CREAD \cup HUPCL, l |-> ECHOPRT] >>

\* the attributes the two terminals of term_copy can have
CopyTtys ==
    { TermiosSpeed(InMask[p].i \cup OutMask[q].i, InMask[p].o \cup OutMask[q].o,
                   InMask[p].c \cup OutMask[q].c, InMask[p].l \cup OutMask[q].l,
                   cc, speeds[1], speeds[2]) :
        p \in {1, 2}, q \in {1, 2},
        cc \in {[VMIN |-> 1, VTIME |-> 0], [VMIN |-> 4, VTIME |-> 2]},
        speeds \in {<<B0, B0>>, <<B9600, B9600>>, <<B9600, B38400>>} }

\* the attributes of the destination of term_copy
CopyDstTtys == {t \in CopyTtys : t.c_cc = [VMIN |-> 4, VTIME |-> 2]}

WinSizes == {[ws_row |-> 24, ws_col |-> 80], [ws_row |-> 50, ws_col |-> 132]}
NoWinsize == [ws_row |-> 0, ws_col |-> 0]

\* variant of CopyFlags that copies the whole word
CopyFlagsAll(dstw, srcw, mask) == srcw

\* variant of CopyFlags that forgets to clear and toggles instead of setting
CopyFlagsXor(dstw, srcw, mask) ==
    (dstw \ (srcw \cap mask)) \cup ((srcw \cap mask) \ dstw)

\* term_copy(): tt_dst.c_Xflag &= !X_FLAGS; tt_dst.c_Xflag |= tt_src.c_Xflag & X_FLAGS;
CopyFlags(dstw, srcw, mask) == (dstw \ mask) \cup (srcw \cap mask)

\* variant of OutputSpeed without the coercion of B0
OutputSpeedAsIs(tt_src) == cfgetospeed(tt_src)

\* term_copy(): let mut speed = cfgetospeed(&tt_src);
\*              if speed == libc::B0 { speed = libc::B38400; }
OutputSpeed(tt_src) ==
    IF cfgetospeed(tt_src) = B0 THEN B38400 ELSE cfgetospeed(tt_src)

\* term_copy(): the tt_dst handed to tcsetattr_nobg
CopyAttrs(tt_src, tt_dst) ==
    LET flags == [tt_dst EXCEPT
                    !.c_iflag = CopyFlags(@, tt_src.c_iflag, INPUT_FLAGS),
                    !.c_oflag = CopyFlags(@, tt_src.c_oflag, OUTPUT_FLAGS),
                    !.c_cflag = CopyFlags(@, tt_src.c_cflag, CONTROL_FLAGS),
                    !.c_lflag = CopyFlags(@, tt_src.c_lflag, LOCAL_FLAGS)]
        chars == [flags EXCEPT !.c_cc = tt_src.c_cc]
    IN  cfsetispeed(cfsetospeed(chars, OutputSpeed(tt_src)), cfgetispeed(tt_src))

\* the call in progress: its operation, the attributes and flags handed to
\* tcsetattr, with_signals, the interruptions retried so far, and whether
\* GOT_SIGTTOU was set when tcsetattr_nobg was entered
NoCall == [op |-> "none", tp |-> Uninit, flags |-> "none", ws |-> FALSE, retries |-> 0,
           stale |-> FALSE]
NoLast == [op |-> "none", res |-> "none", ws |-> FALSE, retries |-> 0, stale |-> FALSE,
           again |-> FALSE]

\* the record of a completed call; `again` tells that the call completed
\* before it was the same operation and returned Ok
Done(op, res, ws, retries, stale) ==
    [op |-> op, res |-> res, ws |-> ws, retries |-> retries, stale |-> stale,
     again |-> (last.op = op /\ last.res = "ok")]

TermInit ==
    /\ CHANGED = FALSE
    /\ OTERM = Uninit
    /\ GOT_SIGTTOU = FALSE
    /\ tty \in InitialTtys
    /\ sigttou_action \in {"SIG_DFL", "SIG_IGN"}
    /\ original_action = "uninit"
    /\ tpc = "idle"
    /\ call = NoCall
    /\ saves = 0
    /\ last = NoLast
    /\ delivered = FALSE
    /\ captures = 0
    /\ tty0 = tty
    /\ src_tty = Uninit
    /\ src_ws = NoWinsize
    /\ dst_ws = NoWinsize

\* variant of SetattrEnter that does not reset GOT_SIGTTOU
SetattrEnterNoReset(op, flags, tp, ws) ==
    /\ GOT_SIGTTOU' = GOT_SIGTTOU
    /\ delivered' = FALSE
    /\ original_action' = sigttou_action
    /\ sigttou_action' = "on_sigttou"
    /\ call' = [op |-> op, tp |-> tp, flags |-> flags, ws |-> ws, retries |-> 0,
                 stale |-> GOT_SIGTTOU]
    /\ tpc' = "setattr"

\* tcsetattr_nobg(), up to the loop: reset GOT_SIGTTOU, install on_sigttou and
\* keep the previous action in original_action
SetattrEnter(op, flags, tp, ws) ==
    /\ GOT_SIGTTOU' = FALSE
    /\ delivered' = FALSE
    /\ original_action' = sigttou_action
    /\ sigttou_action' = "on_sigttou"
    /\ call' = [op |-> op, tp |-> tp, flags |-> flags, ws |-> ws, retries |-> 0,
                 stale |-> GOT_SIGTTOU]
    /\ tpc' = "setattr"

\* variant of Capture that reads the terminal on every entry
CaptureAlways(changed) == TRUE

\* term_raw(): if !CHANGED.load(..) { tcgetattr(fd, OTERM.as_mut_ptr())?; }
Capture(changed) == ~changed

\* term_raw(fd, with_signals), up to the tcsetattr loop
TermRaw ==
    /\ tpc = "idle"
    /\ \E with_signals \in BOOLEAN :
        \/ \* tcgetattr(fd, OTERM.as_mut_ptr()) fails: `?` returns the error
           /\ Capture(CHANGED)
           /\ last' = Done("raw", "err_getattr", with_signals, 0, GOT_SIGTTOU)
           /\ UNCHANGED <<CHANGED, OTERM, GOT_SIGTTOU, tty, sigttou_action,
                          original_action, tpc, call, saves, delivered, captures>>
        \/ LET oterm == IF Capture(CHANGED) THEN tty ELSE OTERM
           IN  /\ Capture(CHANGED) => captures < MaxCaptures
               /\ captures' = IF Capture(CHANGED) THEN captures + 1 ELSE captures
               /\ OTERM' = oterm
               /\ SetattrEnter("raw", "TCSADRAIN", RawTerm(oterm, with_signals),
                               with_signals)
               /\ UNCHANGED <<CHANGED, tty, saves, last>>
    /\ UNCHANGED <<tty0, src_tty, src_ws, dst_ws>>
    /\ UNCHANGED suVars

\* variant of RestoreApplies that reapplies the slot whatever CHANGED is
RestoreAppliesAlways(changed) == TRUE

\* term_restore(): if CHANGED.load(Ordering::Acquire) { .. }
RestoreApplies(changed) == changed

\* term_restore(fd, flush), up to the tcsetattr loop
TermRestore ==
    /\ tpc = "idle"
    /\ \E flush \in BOOLEAN :
        IF RestoreApplies(CHANGED)
        THEN /\ SetattrEnter("restore", IF flush THEN "TCSAFLUSH" ELSE "TCSADRAIN", OTERM,
                             FALSE)
             /\ UNCHANGED <<CHANGED, OTERM, tty, saves, last, captures>>
        ELSE /\ last' = Done("restore", "ok", FALSE, 0, GOT_SIGTTOU)
             /\ UNCHANGED <<CHANGED, OTERM, GOT_SIGTTOU, tty, sigttou_action,
                            original_action, tpc, call, saves, delivered, captures>>
    /\ UNCHANGED <<tty0, src_tty, src_ws, dst_ws>>
    /\ UNCHANGED suVars

\* term_copy(src, dst), up to the tcsetattr loop
TermCopy ==
    /\ tpc = "idle"
    /\ \/ \* tcgetattr(src, ..)? or tcgetattr(dst, ..)? fails
          /\ last' = Done("copy", "err_getattr", FALSE, 0, GOT_SIGTTOU)
          /\ UNCHANGED <<GOT_SIGTTOU, sigttou_action, original_action, tpc, call,
                         delivered>>
       \/ /\ SetattrEnter("copy", "TCSAFLUSH", CopyAttrs(src_tty, tty), FALSE)
          /\ UNCHANGED last
    /\ UNCHANGED <<CHANGED, OTERM, tty, saves, captures, tty0, src_tty, src_ws, dst_ws>>
    /\ UNCHANGED suVars

\* variant of ChangedAfter in which term_restore clears CHANGED
ChangedAfterReset(op, changed) == op = "raw"

\* what the caller does once tcsetattr_nobg returned Ok:
\* term_raw stores true into CHANGED, term_restore does nothing more
ChangedAfter(op, changed) == IF op = "raw" THEN TRUE ELSE changed

\* variant of ReturnsErr with the two conditions joined by `and`
ReturnsErrBoth(got_sigttou, interrupted) == got_sigttou /\ ~interrupted

\* tcsetattr_nobg(): if got_sigttou || err.kind() != Interrupted { return Err(err); }
ReturnsErr(got_sigttou, interrupted) == got_sigttou \/ ~interrupted

\* tcsetattr_nobg(): one tcsetattr(fd, flags, tp) of the loop and what follows it
SetattrSyscall ==
    /\ tpc = "setattr"
    /\ \/ \* Ok(_) => break; restore the original action; Ok(()) to the caller.
          \* term_raw then stores CHANGED; term_copy then copies the window
          \* size with ioctl(src, TIOCGWINSZ)? and ioctl(dst, TIOCSWINSZ)?
          /\ tty' = call.tp
          /\ sigttou_action' = original_action
          /\ CHANGED' = ChangedAfter(call.op, CHANGED)
          /\ saves' = IF ~CHANGED /\ CHANGED' THEN saves + 1 ELSE saves
          /\ \E ioctls \in {"ok", "err_get", "err_set"} :
                /\ call.op # "copy" => ioctls = "ok"
                /\ dst_ws' = IF call.op = "copy" /\ ioctls = "ok" THEN src_ws ELSE dst_ws
                /\ last' = Done(call.op, IF ioctls = "ok" THEN "ok" ELSE "err_ioctl",
                                 call.ws, call.retries, call.stale)
          /\ tpc' = "idle"
          /\ call' = NoCall
          /\ UNCHANGED <<OTERM, GOT_SIGTTOU, original_action, delivered>>
       \/ \* Err(err): the call was interrupted (by SIGTTOU, whose handler
          \* on_sigttou has then run, or by another signal) or failed otherwise
          /\ \E interrupted \in BOOLEAN : \E by_sigttou \in BOOLEAN :
                /\ by_sigttou => interrupted
                /\ LET got_sigttou == GOT_SIGTTOU \/ by_sigttou
                   IN  /\ GOT_SIGTTOU' = got_sigttou
                       /\ delivered' = (delivered \/ by_sigttou)
                       /\ IF ReturnsErr(got_sigttou, interrupted)
                          THEN /\ last' = Done(call.op,
                                                IF interrupted THEN "err_interrupted"
                                                               ELSE "err_io",
                                                call.ws, call.retries, call.stale)
                               /\ tpc' = "idle"
                               /\ call' = NoCall
                          ELSE /\ call.retries < MaxInterrupts
                               /\ call' = [call EXCEPT !.retries = @ + 1]
                               /\ UNCHANGED <<tpc, last>>
          /\ UNCHANGED <<CHANGED, OTERM, tty, sigttou_action, original_action, saves,
                         dst_ws>>
    /\ UNCHANGED <<captures, tty0, src_tty, src_ws>>
    /\ UNCHANGED suVars

\* on_sigttou(): SIGTTOU is delivered while on_sigttou is the installed action
OnSigttou ==
    /\ sigttou_action = "on_sigttou"
    /\ ~GOT_SIGTTOU
    /\ GOT_SIGTTOU' = TRUE
    /\ delivered' = (delivered \/ tpc = "setattr")
    /\ UNCHANGED <<CHANGED, OTERM, tty, sigttou_action, original_action, tpc, call,
                   saves, last, captures, tty0, src_tty, src_ws, dst_ws>>
    /\ UNCHANGED suVars

TermNext ==
    \/ TermRaw
    \/ TermRestore
    \/ SetattrSyscall
    \/ OnSigttou

CopyNext ==
    \/ TermCopy
    \/ SetattrSyscall
    \/ OnSigttou

----------------------------------------------------------------------------
(* The specifications                                                      *)

\* the terminal as the su pipeline leaves it: never touched
TermUntouched ==
    /\ CHANGED = FALSE
    /\ OTERM = Uninit
    /\ GOT_SIGTTOU = FALSE
    /\ tty = Termios(ICRNL \cup IXON, OPOST \cup ONLCR, B38400 \cup CS8 \cup CREAD,
                     ISIG \cup ICANON \cup IEXTEN \cup ECHO \cup ECHOE,
                     [VMIN |-> 1, VTIME |-> 0])
    /\ sigttou_action = "SIG_DFL"
    /\ original_action = "uninit"
    /\ tpc = "idle"
    /\ call = NoCall
    /\ saves = 0
    /\ last = NoLast
    /\ delivered = FALSE
    /\ captures = 0
    /\ tty0 = tty
    /\ src_tty = Uninit
    /\ src_ws = NoWinsize
    /\ dst_ws = NoWinsize

\* the su pipeline while the terminal code is exercised: not started
SuIdle ==
    /\ pc = "term"
    /\ max_tries = 0
    /\ current_try = 0
    /\ events = <<>>
    /\ reason = NoReason
    /\ pid = "unset"
    /\ error = NoError
    /\ proc = "running"
    /\ exit_status = -1
    /\ term_signal = 0

\* two terminals before the first term_copy
CopyInit ==
    /\ CHANGED = FALSE
    /\ OTERM = Uninit
    /\ GOT_SIGTTOU = FALSE
    /\ tty \in CopyDstTtys
    /\ sigttou_action = "SIG_DFL"
    /\ original_action = "uninit"
    /\ tpc = "idle"
    /\ call = NoCall
    /\ saves = 0
    /\ last = NoLast
    /\ delivered = FALSE
    /\ captures = 0
    /\ tty0 = tty
    /\ src_tty \in CopyTtys
    /\ src_ws \in WinSizes
    /\ dst_ws = [ws_row |-> 24, ws_col |-> 80]

Init == SuInit /\ TermUntouched
Next == SuNext
Spec == Init /\ [][Next]_vars

TInit == TermInit /\ SuIdle
TermSpec == TInit /\ [][TermNext]_vars

CInit == CopyInit /\ SuIdle
CopySpec == CInit /\ [][CopyNext]_vars

----------------------------------------------------------------------------
(* Properties of the su pipeline                                           *)

EvIdx == 1..Len(events)
Count(op) == Cardinality({i \in EvIdx : events[i].op = op})
OkBefore(op, i) == {j \in 1..(i - 1) : events[j].op = op /\ events[j].ok}
Has(op) == \E i \in EvIdx : events[i].op = op
LastEv == events[Len(events)]
Mismatch(e) == e.op = "authenticate" /\ e.res.variant = "Pam" /\ e.res.ty = "AuthError"
ModuleExhausted(e) == e.op = "authenticate" /\ e.res.variant = "Pam" /\ e.res.ty = "MaxTries"
OtherAuthError(e) == e.op = "authenticate" /\ ~e.ok /\ ~Mismatch(e) /\ ~ModuleExhausted(e)
\* the attempt loop has run and is over
AuthOver == Has("authenticate") /\ pc # "auth_loop"
LastAuth == events[CHOOSE i \in EvIdx : events[i].op = "authenticate"
                                    /\ \A j \in EvIdx : events[j].op = "authenticate" => j <= i]

\* C1: run_command is called only after a successful authenticate, then a
\* successful validate, then a successful open_session; open_session is
\* preceded by exactly one successful authenticate and one successful
\* validate; a failed step is the last call made and the target never runs.
C1_StrictSequence ==
    /\ \A i \in EvIdx : events[i].op = "run_command" =>
          \E a \in OkBefore("authenticate", i) :
          \E v \in OkBefore("validate", i) :
          \E o \in OkBefore("open_session", i) : a < v /\ v < o
    /\ \A i \in EvIdx : events[i].op = "open_session" =>
          /\ Cardinality(OkBefore("authenticate", i)) = 1
          /\ Cardinality(OkBefore("validate", i)) = 1
          /\ \E a \in OkBefore("authenticate", i) :
             \E v \in OkBefore("validate", i) : a < v
    /\ \A i \in EvIdx :
          /\ events[i].op \in {"from_env", "pam_build", "set_user", "validate",
                               "open_session"}
          /\ ~events[i].ok
          => i = Len(events) /\ pc = "done" /\ ~Has("run_command")
    /\ error.tag \in {"MaxAuthAttempts", "Pam"} /\ OkBefore("authenticate", Len(events) + 1) = {}
          => ~Has("validate") /\ ~Has("open_session") /\ ~Has("run_command")

C1_Witness ==
    /\ Has("run_command")
    /\ Count("authenticate") = 3
    /\ Count("warn") = 2

\* C2: at most MAX_TRIES - 1 warnings and at most MAX_TRIES authenticate
\* calls; the budget is never negative and only decreases during the loop;
\* the loop ends in success or in an error, and after mismatches only it
\* ends in success or MaxAuthAttempts(k) with k <= MAX_TRIES.
C2_Budget ==
    /\ Count("warn") <= MAX_TRIES - 1
    /\ Count("authenticate") <= MAX_TRIES
    /\ current_try <= MAX_TRIES
    /\ max_tries >= 0
    /\ pc = "auth_loop" => max_tries >= 1
    /\ AuthOver => LastAuth.ok \/ error # NoError
    /\ AuthOver /\ (\A i \in EvIdx : events[i].op = "authenticate" /\ ~events[i].ok
                                        => Mismatch(events[i]))
          => \/ LastAuth.ok
             \/ error.tag = "MaxAuthAttempts" /\ error.tries <= MAX_TRIES

C2_BudgetDecreases == [][pc = "auth_loop" => max_tries' <= max_tries]_vars

\* C2: the bounds of C2_Budget in every state and the budget never increasing
C2_RetryBudget == []C2_Budget /\ C2_BudgetDecreases

C2_Witness ==
    /\ error.tag = "MaxAuthAttempts"
    /\ max_tries = 0
    /\ Count("warn") = MAX_TRIES - 1

\* C3: run() fails with MaxAuthAttempts exactly when the last call was a
\* pam.authenticate that reported MaxTries, or reported AuthError and left
\* the budget at zero.
C3_ExhaustedIff ==
    error.tag = "MaxAuthAttempts"
    <=> /\ Len(events) > 0
        /\ \/ ModuleExhausted(LastEv)
           \/ Mismatch(LastEv) /\ max_tries = 0

C3_Witness ==
    /\ error.tag = "MaxAuthAttempts"
    /\ ModuleExhausted(LastEv)
    /\ max_tries = 2

\* C4: MaxAuthAttempts(k) carries the number of pam.authenticate calls made,
\* 1 <= k <= MAX_TRIES; three mismatches give MaxAuthAttempts(3) after
\* exactly two warnings.
C4_AttemptCount ==
    /\ error.tag = "MaxAuthAttempts" =>
          /\ error.tries = Count("authenticate")
          /\ 1 <= error.tries /\ error.tries <= MAX_TRIES
    /\ Cardinality({i \in EvIdx : Mismatch(events[i])}) = MAX_TRIES =>
          /\ error = MaxAuthAttempts(3)
          /\ Count("warn") = 2

C4_Witness ==
    /\ Cardinality({i \in EvIdx : Mismatch(events[i])}) = MAX_TRIES
    /\ error = MaxAuthAttempts(3)

\* C5: an authenticate error other than AuthError and MaxTries ends the run
\* at once with that same error: it is the last call made, no warning
\* follows it, the budget is what the earlier warnings left, and validate
\* and open_session are not called.
C5_OtherErrorFatal ==
    \A i \in EvIdx : OtherAuthError(events[i]) =>
        /\ i = Len(events)
        /\ pc = "done"
        /\ error.tag = "Pam" /\ error.pam = events[i].res
        /\ Count("authenticate") = Count("warn") + 1
        /\ max_tries = MAX_TRIES - Count("warn")
        /\ ~Has("validate") /\ ~Has("open_session")

C5_Witness ==
    /\ Len(events) > 0
    /\ OtherAuthError(LastEv)
    /\ Count("warn") = 1
    /\ error.tag = "Pam"

\* C6: once open_session succeeded, close_session is attempted exactly
\* once before the process ends, whatever run_command returned, also an
\* error; never twice, and never without an opened session.
C6_CloseExactlyOnce ==
    /\ Count("close_session") <= 1
    /\ \A i \in EvIdx : events[i].op = "close_session" => OkBefore("open_session", i) # {}
    /\ proc # "running" /\ OkBefore("open_session", Len(events) + 1) # {}
          => Count("close_session") = 1

\* C7: when run_command returned an ExitReason, close_session comes first,
\* then the finalize callback, exactly once, then exit or kill.
C7_CloseFinalizeTerminate ==
    /\ Count("finalize") <= 1
    /\ \A i \in EvIdx : events[i].op \in {"exit", "kill"} =>
          \E c \in EvIdx : \E f \in EvIdx :
             /\ events[c].op = "close_session"
             /\ events[f].op = "finalize"
             /\ c < f /\ f < i
    /\ \A i \in EvIdx : events[i].op = "finalize" =>
          \E c \in 1..(i - 1) : events[c].op = "close_session"
    /\ reason # NoReason /\ proc # "running" =>
          /\ Count("finalize") = 1
          /\ LastEv.op \in {"exit", "kill"}

C7_Witness ==
    /\ proc = "signaled"
    /\ Count("finalize") = 1
    /\ \E i \in EvIdx : events[i].op = "close_session" /\ ~events[i].ok

\* C8: Code(c) makes this process exit with status c; Signal(s) makes it
\* send signal s to its own pid and end by that signal, never by an exit
\* status; both whether or not close_session succeeded.
C8_ReproducesOutcome ==
    pc = "done" /\ reason # NoReason =>
        /\ reason.kind = "Code" => proc = "exited" /\ exit_status = reason.v
        /\ reason.kind = "Signal" =>
              /\ LastEv = Ev("kill", TRUE, reason.v)
              /\ pid = "self"
              /\ proc = "signaled"
              /\ term_signal = reason.v
              /\ exit_status = -1

\* C9: a failed run() exits with 127 for CommandNotFound, 126 for
\* InvalidCommand and 1 for every other error; help and version exit with 0
\* and call nothing else.
C9_ExitStatus ==
    /\ error # NoError =>
          /\ pc = "done" /\ proc = "exited"
          /\ exit_status = CASE error.tag = "CommandNotFound" -> 127
                             [] error.tag = "InvalidCommand" -> 126
                             [] OTHER -> 1
    /\ \A i \in EvIdx : events[i].op \in {"Help", "Version"} =>
          /\ Len(events) = 1
          /\ proc = "exited" /\ exit_status = 0 /\ error = NoError

C9_Witness ==
    /\ error.tag = "CommandNotFound"
    /\ exit_status = 127

----------------------------------------------------------------------------
(* Properties of the terminal code                                         *)

\* C10: CHANGED goes from false to true at most once and, once true, no
\* term_raw (succeeding or failing) and no term_restore sets it back.
C10_SavedOnce == [][(CHANGED => CHANGED') /\ saves' <= 1]_vars

C10_Witness ==
    /\ CHANGED /\ saves = 1
    /\ last.op = "restore" /\ last.res = "ok"
    /\ tpc = "idle"

\* C11: a term_restore called while CHANGED is false returns Ok and does
\* nothing: it never enters tcsetattr_nobg (no tcsetattr, no handler
\* installed) and leaves the terminal, OTERM, CHANGED and GOT_SIGTTOU alone.
C11_RestoreStep ==
    ~CHANGED /\ last' # last /\ last'.op = "restore" =>
        /\ tpc = "idle" /\ tpc' = "idle"
        /\ last'.res = "ok"
        /\ UNCHANGED <<tty, OTERM, CHANGED, GOT_SIGTTOU, sigttou_action, original_action,
                       call, captures, saves>>

C11_UntouchedRestoreNoop ==
    /\ [](call.op = "restore" => CHANGED)
    /\ [](last.op = "restore" /\ ~CHANGED => last.res = "ok")
    /\ [][C11_RestoreStep]_vars

C11_Witness ==
    /\ ~CHANGED
    /\ captures >= 1
    /\ last.op = "restore" /\ last.res = "ok"
    /\ tty = tty0

\* C12: after a successful term_raw the terminal has cfmakeraw of the
\* snapshot (ICANON, ECHO and ISIG off in c_lflag); with with_signals it has
\* in addition ISIG set in c_lflag and differs from cfmakeraw in that bit only.
C12_RawTransform ==
    tpc = "idle" /\ last.op = "raw" /\ last.res = "ok" =>
        LET raw == cfmakeraw(OTERM)
        IN  /\ raw.c_lflag \cap (ICANON \cup ECHO \cup ISIG) = {}
            /\ tty = IF last.ws THEN [raw EXCEPT !.c_lflag = @ \cup ISIG] ELSE raw

\* C13: whenever tcsetattr_nobg has returned, with Ok or with an error, the
\* action installed for SIGTTOU is the one that was installed before the call.
C13_HandlerRestored ==
    tpc = "idle" /\ original_action # "uninit" => sigttou_action = original_action

\* C14: inside tcsetattr_nobg an interruption with GOT_SIGTTOU clear never
\* ends the call (the syscall is issued again, the terminal is untouched),
\* a call that ends with Ok has applied the attributes however often it was
\* interrupted, and with GOT_SIGTTOU set a failing syscall ends the call at
\* once with the terminal untouched.
C14_SyscallStep ==
    tpc = "setattr" =>
        /\ call'.retries = call.retries + 1 =>
              ~GOT_SIGTTOU' /\ tpc' = "setattr" /\ tty' = tty /\ call'.tp = call.tp
        /\ tpc' = "idle" /\ last'.res = "err_interrupted" => GOT_SIGTTOU' /\ tty' = tty
        /\ tpc' = "idle" /\ last'.res \in {"ok", "err_ioctl"} => tty' = call.tp
        /\ GOT_SIGTTOU => tpc' = "idle" \/ UNCHANGED vars

C14_InterruptionPolicy == [][C14_SyscallStep]_vars

C14_Witness ==
    /\ tpc = "idle"
    /\ last.op = "raw" /\ last.res = "ok" /\ last.retries >= 2
    /\ tty = RawTerm(OTERM, last.ws)

\* C15: a successful term_copy that follows a successful term_copy from the
\* same source leaves the destination's attributes and window size as the
\* first one left them.
C15_SecondCopyStep ==
    /\ tpc = "setattr" /\ call.op = "copy"
    /\ last.op = "copy" /\ last.res = "ok"
    /\ tpc' = "idle" /\ last'.res = "ok"
    => tty' = tty /\ dst_ws' = dst_ws

C15_CopyIdempotent == [][C15_SecondCopyStep]_vars

C15_Witness ==
    /\ tpc = "idle"
    /\ last.op = "copy" /\ last.res = "ok" /\ last.again
    /\ tty # tty0
    /\ dst_ws = src_ws

\* C16: once term_copy has applied the attributes, the destination's output
\* speed is not B0: it is B38400 if the source's is B0 and the source's
\* output speed otherwise.
C16_NoZeroOutputSpeed ==
    tpc = "idle" /\ last.op = "copy" /\ last.res \in {"ok", "err_ioctl"} =>
        /\ cfgetospeed(tty) # B0
        /\ cfgetospeed(src_tty) = B0 => cfgetospeed(tty) = B38400
        /\ cfgetospeed(src_tty) # B0 => cfgetospeed(tty) = cfgetospeed(src_tty)

C16_Witness ==
    /\ tpc = "idle"
    /\ last.op = "copy" /\ last.res = "ok"
    /\ cfgetospeed(src_tty) = B0
    /\ cfgetospeed(tty0) = B0
    /\ cfgetospeed(tty) = B38400

\* C17 as claimed: term_raw captures the terminal into OTERM at most once.
C17_CapturedOnce == captures <= 1

\* C17 as amended: OTERM is written only by a term_raw entered while CHANGED
\* is false; once a term_raw has succeeded nothing writes it again.
C17_NoCaptureOnceSaved ==
    [][CHANGED => OTERM' = OTERM /\ captures' = captures]_vars

C17_Witness ==
    /\ CHANGED
    /\ captures = 2
    /\ tpc = "idle"
    /\ last.op = "raw" /\ last.res = "ok" /\ last.again

\* C18: once a term_raw has succeeded, OTERM holds the attributes the
\* terminal had before it, whatever term_raw and term_restore calls follow,
\* and a successful term_restore leaves the terminal with exactly those.
C18_RestoreGivesOriginal ==
    /\ CHANGED => OTERM = tty0
    /\ tpc = "idle" /\ CHANGED /\ last.op = "restore" /\ last.res = "ok" => tty = tty0

C18_Witness ==
    /\ tpc = "idle"
    /\ CHANGED
    /\ last.op = "restore" /\ last.res = "ok" /\ last.again
    /\ tty = tty0
    /\ tty0 # RawTerm(tty0, TRUE)

\* C19: a successful term_copy makes the destination's bits inside each of
\* the four masks equal to the source's, keeps its bits outside the masks,
\* makes c_cc equal to the source's, and leaves the source as it was.
C19_CopyStep ==
    tpc = "setattr" /\ call.op = "copy" /\ tpc' = "idle" /\ last'.res = "ok" =>
        /\ tty'.c_iflag \cap INPUT_FLAGS = src_tty.c_iflag \cap INPUT_FLAGS
        /\ tty'.c_oflag \cap OUTPUT_FLAGS = src_tty.c_oflag \cap OUTPUT_FLAGS
        /\ tty'.c_cflag \cap CONTROL_FLAGS = src_tty.c_cflag \cap CONTROL_FLAGS
        /\ tty'.c_lflag \cap LOCAL_FLAGS = src_tty.c_lflag \cap LOCAL_FLAGS
        /\ tty'.c_iflag \ INPUT_FLAGS = tty.c_iflag \ INPUT_FLAGS
        /\ tty'.c_oflag \ OUTPUT_FLAGS = tty.c_oflag \ OUTPUT_FLAGS
        /\ tty'.c_cflag \ CONTROL_FLAGS = tty.c_cflag \ CONTROL_FLAGS
        /\ tty'.c_lflag \ LOCAL_FLAGS = tty.c_lflag \ LOCAL_FLAGS
        /\ tty'.c_cc = src_tty.c_cc

C20_CallEndStep ==
    tpc = "setattr" /\ tpc' = "idle" /\ ~delivered' =>
        last'.res \in {"ok", "err_ioctl", "err_io"}

C20_VerdictFromThisCall ==
    /\ [](tpc = "idle" /\ last.res = "err_interrupted" => delivered)
    /\ [][C20_CallEndStep]_vars

C20_Witness ==
    /\ tpc = "idle"
    /\ last.stale
    /\ ~delivered
    /\ last.op = "raw" /\ last.res = "ok" /\ last.retries >= 1

====
